---- MODULE Spec2Model ----
(***************************************************************************)
(* Flax greenhouse growth simulation.                                      *)
(*                                                                         *)
(* Three entry points of the repository are modelled:                      *)
(*   "main" : src/main.py run_simulation (EnvironmentController +          *)
(*            GrowthSimulator, days 1..TOTAL_DAYS)                         *)
(*   "api"  : GrowthSimulator.simulate_day called by a client that keeps   *)
(*            calling it, with readings from the controller or supplied    *)
(*            externally                                                   *)
(*   "mvc"  : src/flax_greenhouse_mvc MainController._update_model driving *)
(*            PlantModel.update from sensor data                           *)
(*                                                                         *)
(* Specifications:                                                         *)
(*   Spec       : the three programs under the shipped configuration       *)
(*   SpecConfig : the simulator programs under an invalid configuration    *)
(*   SpecTwin   : run_simulation run twice from the same seed, at          *)
(*                different times of day                                   *)
(*   SpecHardware : the first minute of the greenhouse controller with its *)
(*                threads followed step by step: the control loop, the     *)
(*                hardware simulator thread and the thread that calls      *)
(*                MainController.stop                                      *)
(*                                                                         *)
(* Numbers are fixed point:                                                *)
(*   reading values (degrees, exchanges/h, ml, hours) in hundredths,       *)
(*   growth factor, stress, appearance, sigmoid, variation and the plant   *)
(*   metrics in 1/10000 (ONE).                                             *)
(* Python's random module is a deterministic generator seeded once; it is  *)
(* modelled as a small linear congruential generator whose seed is chosen  *)
(* in Init, each draw advancing its state.                                 *)
(***************************************************************************)
EXTENDS Integers, Sequences, FiniteSets, TLC

VARIABLES
    program,            \* which entry point runs: "main", "api", "mvc"
    source,             \* where the readings come from (see Sources)
    error_simulation,   \* EnvironmentController.error_simulation
    rng,                \* state of the random generator
    pc,                 \* position of the driver
    day,                \* run_simulation's loop variable
    current_day,        \* GrowthSimulator.current_day / MainController.current_day
    phase,              \* phase looked up for the day last processed
    env,                \* EnvironmentController.current_params / PlantModel.environment
    error_active,       \* EnvironmentController.error_active
    error_description,  \* EnvironmentController.error_description
    plants,             \* FlaxPlant instances / the PlantModel
    exception,          \* exception raised by the last call, "none" if none
    simulation_mode,    \* SensorManager.simulation_mode
    air_temperature,    \* SensorManager.sensor_data["air_temperature"]
    ticks,              \* model-update intervals elapsed since MainController.start
    configuration,      \* which src/config.py the simulator runs under (see Configurations)
    now,                \* datetime.now() of the run, in loop iterations (SpecHardware:
                        \* the hour of the day the control loop read last)
    daily_data,         \* DataLogger.daily_data
    second_run,         \* the second run of SpecTwin (no second run: empty)
    soil_moisture,      \* SensorManager.sensor_data["soil_moisture"]
    hardware,           \* the HardwareController: components, command_queue, ...
    running,            \* MainController.running
    threads,            \* each thread's position and its local variables
    last_enqueued       \* per component, the command enqueued last (history)

vars == <<program, source, error_simulation, rng, pc, day, current_day, phase, env,
          error_active, error_description, plants, exception, simulation_mode,
          air_temperature, ticks, configuration, now, daily_data, second_run,
          soil_moisture, hardware, running, threads, last_enqueued>>

----------------------------------------------------------------------------
(* Bounds of the model *)

NumSeeds == 6
NumPlants == 2
MaxDay == 102
UpdatesPerDay == 4
MaxMvcDays == 81
MaxStartDelay == 2

----------------------------------------------------------------------------
(* Fixed-point units and the random generator *)

ONE == 10000
RNG_MOD == 65536

Min(a, b) == IF a <= b THEN a ELSE b
Max(a, b) == IF a >= b THEN a ELSE b
Abs(a) == IF a >= 0 THEN a ELSE -a

\* one step of the generator
NextRandom(s) ==
    ((75 * (s + 1)) % (RNG_MOD + 1)) - 1

RECURSIVE Draw(_, _)
\* state of the generator after k draws from state s; the k-th draw's value
Draw(s, k) ==
    IF k = 0 THEN s ELSE NextRandom(Draw(s, k - 1))

\* random.uniform(lo, hi) for the draw x, in the unit of lo and hi
uniform(lo, hi, x) ==
    lo + ((hi - lo) * x) \div RNG_MOD

\* round(v, 1) of a value in hundredths
round1(v) ==
    ((v + 5) \div 10) * 10

\* round(v) of a value in 1/ONE, to an integer (ties to even, as Python 3)
round_int(v) ==
    LET q == v \div ONE
        r == v % ONE
    IN  IF 2 * r < ONE THEN q
        ELSE IF 2 * r > ONE THEN q + 1
        ELSE IF q % 2 = 0 THEN q ELSE q + 1

\* round(num / den) to an integer for num >= 0, den > 0 (ties to even)
round_div(num, den) ==
    LET q == num \div den
        r == num % den
    IN  IF 2 * r < den THEN q
        ELSE IF 2 * r > den THEN q + 1
        ELSE IF q % 2 = 0 THEN q ELSE q + 1

----------------------------------------------------------------------------
(* src/config.py *)

\* The configuration file is an input of the program. "shipped" is the file of
\* the repository; the other two are the file with one entry edited:
\*   "zero_length_phase" : FLOWERING_PHASE = (61, 60)
\*   "inverted_range"    : germination temperature = (20, 15, 18), min > max
Configurations == {"shipped", "zero_length_phase", "inverted_range"}

GERMINATION_PHASE == <<1, 10>>
GROWTH_PHASE == <<11, 60>>
FLOWERING_PHASE ==
    IF configuration = "zero_length_phase" THEN <<61, 60>> ELSE <<61, 75>>
RIPENING_PHASE == <<76, 100>>
TOTAL_DAYS == 100

PhaseNames == {"germination", "growth", "flowering", "ripening"}

\* (min, max, optimal) in hundredths
ENVIRONMENT_PARAMS(ph) ==
    CASE ph = "germination" ->
           [temperature |-> (IF configuration = "inverted_range"
                             THEN <<2000, 1500, 1800>> ELSE <<1500, 2000, 1800>>),
            ventilation |-> <<100, 200, 150>>,
            irrigation |-> <<5000, 10000, 7500>>, light_hours |-> <<1200, 1400, 1300>>]
      [] ph = "growth" ->
           [temperature |-> <<1800, 2200, 2000>>, ventilation |-> <<200, 300, 250>>,
            irrigation |-> <<10000, 20000, 15000>>, light_hours |-> <<1400, 1600, 1500>>]
      [] ph = "flowering" ->
           [temperature |-> <<2000, 2400, 2200>>, ventilation |-> <<300, 400, 350>>,
            irrigation |-> <<15000, 25000, 20000>>, light_hours |-> <<1400, 1400, 1400>>]
      [] ph = "ripening" ->
           [temperature |-> <<1800, 2200, 2000>>, ventilation |-> <<200, 300, 250>>,
            irrigation |-> <<10000, 20000, 15000>>, light_hours |-> <<1200, 1400, 1300>>]

max_height == 120
max_root_length == 120
max_flowers == 50

\* shares of the total growth per phase, in percent
height_growth_factors(ph) ==
    CASE ph = "germination" -> 5 [] ph = "growth" -> 70
      [] ph = "flowering" -> 20 [] ph = "ripening" -> 5

root_growth_factors(ph) ==
    CASE ph = "germination" -> 15 [] ph = "growth" -> 65
      [] ph = "flowering" -> 15 [] ph = "ripening" -> 5

flower_growth_factors(ph) ==
    CASE ph = "germination" -> 0 [] ph = "growth" -> 0
      [] ph = "flowering" -> 80 [] ph = "ripening" -> 20

APPEARANCE_RATINGS(ph) ==
    CASE ph = "germination" -> <<2, 4>> [] ph = "growth" -> <<5, 8>>
      [] ph = "flowering" -> <<7, 10>> [] ph = "ripening" -> <<6, 9>>

\* ERROR_SIMULATION["probability"] in percent, ["severity"] in hundredths
ERROR_PROBABILITY == 10
ERROR_SEVERITY ==
    [temperature |-> 300, ventilation |-> 50, irrigation |-> 3000, light_hours |-> 200]

get_random_parameter_from_zero(lo, hi, x) ==
    round1(uniform(0, hi, x))

get_random_parameter(lo, hi, x) ==
    round1(uniform(lo, hi, x))

get_current_phase_open(d) ==
    IF GERMINATION_PHASE[1] <= d /\ d < GERMINATION_PHASE[2] THEN "germination"
    ELSE IF GROWTH_PHASE[1] <= d /\ d < GROWTH_PHASE[2] THEN "growth"
    ELSE IF FLOWERING_PHASE[1] <= d /\ d < FLOWERING_PHASE[2] THEN "flowering"
    ELSE IF RIPENING_PHASE[1] <= d /\ d < RIPENING_PHASE[2] THEN "ripening"
    ELSE "unknown"

get_current_phase(d) ==
    IF GERMINATION_PHASE[1] <= d /\ d <= GERMINATION_PHASE[2] THEN "germination"
    ELSE IF GROWTH_PHASE[1] <= d /\ d <= GROWTH_PHASE[2] THEN "growth"
    ELSE IF FLOWERING_PHASE[1] <= d /\ d <= FLOWERING_PHASE[2] THEN "flowering"
    ELSE IF RIPENING_PHASE[1] <= d /\ d <= RIPENING_PHASE[2] THEN "ripening"
    ELSE "unknown"

get_phase_day(d, ph) ==
    CASE ph = "germination" -> d - GERMINATION_PHASE[1] + 1
      [] ph = "growth" -> d - GROWTH_PHASE[1] + 1
      [] ph = "flowering" -> d - FLOWERING_PHASE[1] + 1
      [] ph = "ripening" -> d - RIPENING_PHASE[1] + 1
      [] OTHER -> 0

get_phase_length(ph) ==
    CASE ph = "germination" -> GERMINATION_PHASE[2] - GERMINATION_PHASE[1] + 1
      [] ph = "growth" -> GROWTH_PHASE[2] - GROWTH_PHASE[1] + 1
      [] ph = "flowering" -> FLOWERING_PHASE[2] - FLOWERING_PHASE[1] + 1
      [] ph = "ripening" -> RIPENING_PHASE[2] - RIPENING_PHASE[1] + 1
      [] OTHER -> 0

----------------------------------------------------------------------------
(* src/plant_simulator.py: FlaxPlant *)

\* FlaxPlant.__init__. Besides the attributes the record keeps what the last
\* update computed on the way: growth_factor is the value last returned by
\* _calculate_growth_factor (1.0 before the first evaluation), updates counts
\* the completed updates, increment holds the amounts the last update added
\* before rounding and limiting, variation the multiplier each of them carried,
\* drawn_from the generator's state when that update began, and flower_sum the
\* sum of all flower increments so far.
FlaxPlant ==
    [height |-> 0, root_length |-> 0, flowers |-> 0, appearance |-> 3 * ONE,
     stress_level |-> 0, growth_factor |-> ONE,
     updates |-> 0,
     increment |-> [height |-> 0, root_length |-> 0, flowers |-> 0],
     variation |-> [height |-> ONE, root_length |-> ONE, flowers |-> ONE],
     drawn_from |-> 0,
     flower_sum |-> 0]

\* weights in tenths: (growth loss below min, growth loss above max,
\*                     stress below min, stress above max, bonus within range)
TEMPERATURE_WEIGHTS == <<5, 6, 3, 4, 2>>
IRRIGATION_WEIGHTS == <<7, 6, 5, 4, 1>>
VENTILATION_WEIGHTS == <<4, 3, 2, 1, 1>>
LIGHT_WEIGHTS == <<6, 3, 3, 2, 2>>

parameter_effect_bonus_subtracted(value, range, w) ==
    LET lo == range[1]
        hi == range[2]
        optimal == range[3]
    IN  IF value < lo THEN
            LET penalty == ((lo - value) * ONE) \div lo
            IN  [growth |-> -((penalty * w[1]) \div 10), stress |-> (penalty * w[3]) \div 10]
        ELSE IF value > hi THEN
            LET penalty == ((value - hi) * ONE) \div hi
            IN  [growth |-> -((penalty * w[2]) \div 10), stress |-> (penalty * w[4]) \div 10]
        ELSE
            LET optimality ==
                    IF hi = lo THEN (IF value = optimal THEN ONE ELSE (8 * ONE) \div 10)
                    ELSE ONE - (Abs(value - optimal) * ONE) \div (hi - lo)
            IN  [growth |-> -((optimality * w[5]) \div 10), stress |-> 0]

\* one parameter's block of _calculate_growth_factor: its contribution to
\* growth_factor and to stress_level, in 1/ONE
parameter_effect(value, range, w) ==
    LET lo == range[1]
        hi == range[2]
        optimal == range[3]
    IN  IF value < lo THEN
            LET penalty == ((lo - value) * ONE) \div lo
            IN  [growth |-> -((penalty * w[1]) \div 10), stress |-> (penalty * w[3]) \div 10]
        ELSE IF value > hi THEN
            LET penalty == ((value - hi) * ONE) \div hi
            IN  [growth |-> -((penalty * w[2]) \div 10), stress |-> (penalty * w[4]) \div 10]
        ELSE
            LET optimality ==
                    IF hi = lo THEN (IF value = optimal THEN ONE ELSE (8 * ONE) \div 10)
                    ELSE ONE - (Abs(value - optimal) * ONE) \div (hi - lo)
            IN  [growth |-> (optimality * w[5]) \div 10, stress |-> 0]

\* growth factor before the final clamping
raw_growth_factor(environment) ==
    ONE
    + parameter_effect(environment.temperature, environment.temperature_range,
                       TEMPERATURE_WEIGHTS).growth
    + parameter_effect(environment.irrigation, environment.irrigation_range,
                       IRRIGATION_WEIGHTS).growth
    + parameter_effect(environment.ventilation, environment.ventilation_range,
                       VENTILATION_WEIGHTS).growth
    + parameter_effect(environment.light_hours, environment.light_hours_range,
                       LIGHT_WEIGHTS).growth

raw_stress_level(environment) ==
    parameter_effect(environment.temperature, environment.temperature_range,
                     TEMPERATURE_WEIGHTS).stress
    + parameter_effect(environment.irrigation, environment.irrigation_range,
                       IRRIGATION_WEIGHTS).stress
    + parameter_effect(environment.ventilation, environment.ventilation_range,
                       VENTILATION_WEIGHTS).stress
    + parameter_effect(environment.light_hours, environment.light_hours_range,
                       LIGHT_WEIGHTS).stress

clamp_growth_factor_no_cap(g) ==
    Max(ONE \div 10, g)

clamp_growth_factor_no_floor(g) ==
    Min(g, (12 * ONE) \div 10)

\* growth_factor = max(0.1, min(growth_factor, 1.2))
clamp_growth_factor(g) ==
    Max(ONE \div 10, Min(g, (12 * ONE) \div 10))

initial_stress_level_kept(previous) ==
    previous

\* self.stress_level = 0.0 at the start of every evaluation, whatever the
\* stress level was before
initial_stress_level(previous) ==
    0

\* FlaxPlant._calculate_growth_factor: the returned factor and the stress level
\* it leaves on the plant
calculate_growth_factor(plant, environment) ==
    [growth_factor |-> clamp_growth_factor(raw_growth_factor(environment)),
     stress_level |-> Min(initial_stress_level(plant.stress_level)
                          + raw_stress_level(environment), ONE)]

\* math.exp(-10 * (phase_day / phase_length - 0.5)) in 1/ONE
exp_neg10(phase_day, phase_length) ==
    CASE phase_length = 10 ->
           <<545982, 200855, 73891, 27183, 10000, 3679, 1353, 498, 183, 67>>[phase_day]
      [] phase_length = 50 ->
           <<1215104, 994843, 814509, 666863, 545982, 447012, 365982, 299641, 245325,
             200855, 164446, 134637, 110232, 90250, 73891, 60496, 49530, 40552, 33201,
             27183, 22255, 18221, 14918, 12214, 10000, 8187, 6703, 5488, 4493, 3679,
             3012, 2466, 2019, 1653, 1353, 1108, 907, 743, 608, 498, 408, 334, 273, 224,
             183, 150, 123, 101, 82, 67>>[phase_day]
      [] phase_length = 15 ->
           <<761979, 391213, 200855, 103123, 52945, 27183, 13956, 7165, 3679, 1889, 970,
             498, 256, 131, 67>>[phase_day]
      [] phase_length = 25 ->
           <<994843, 666863, 447012, 299641, 200855, 134637, 90250, 60496, 40552, 27183,
             18221, 12214, 8187, 5488, 3679, 2466, 1653, 1108, 743, 498, 334, 224, 150,
             101, 67>>[phase_day]

sigmoid_factor_mirrored(phase_day, phase_length) ==
    (ONE * ONE) \div (ONE + exp_neg10(phase_length + 1 - phase_day, phase_length))

\* 1 / (1 + math.exp(-10 * (phase_progress - 0.5))) in 1/ONE
sigmoid_factor(phase_day, phase_length) ==
    (ONE * ONE) \div (ONE + exp_neg10(phase_day, phase_length))

update_appearance_stress_inverted(stress, ph, x) ==
    LET r == APPEARANCE_RATINGS(ph)
        clamped == Max(0, Min(10 * ONE, r[1] * ONE + (r[2] - r[1]) * stress
                                        + uniform(-3000, 3000, x)))
    IN  ((clamped + 500) \div 1000) * 1000

update_appearance_unclamped(stress, ph, x) ==
    LET r == APPEARANCE_RATINGS(ph)
    IN  r[1] * ONE + (r[2] - r[1]) * (ONE - stress) + uniform(-3000, 3000, x)

\* FlaxPlant._update_appearance, x the draw of its random variation
update_appearance(stress, ph, x) ==
    LET r == APPEARANCE_RATINGS(ph)
        appearance_mod == ONE - stress
        base_appearance == r[1] * ONE + (r[2] - r[1]) * appearance_mod
        variation == uniform(-3000, 3000, x)
        clamped == Max(0, Min(10 * ONE, base_appearance + variation))
    IN  ((clamped + 500) \div 1000) * 1000

limit_unbounded(value, maximum) ==
    value

\* min(new_value, PLANT_PARAMS["max_..."])
limit(value, maximum) ==
    Min(value, maximum)

\* the three daily increments of update_growth before the random variation
daily_growth(ph, phase_day, phase_length, growth_factor) ==
    LET sig == sigmoid_factor(phase_day, phase_length)
        max_height_growth == (max_height * ONE * height_growth_factors(ph)) \div (100 * phase_length)
        max_root_growth == (max_root_length * ONE * root_growth_factors(ph)) \div (100 * phase_length)
        max_flower_growth ==
            IF ph \in {"flowering", "ripening"}
            THEN (max_flowers * ONE * flower_growth_factors(ph)) \div (100 * phase_length)
            ELSE 0
        scaled(m) == (((m * sig) \div ONE) * growth_factor) \div ONE
    IN  [height |-> scaled(max_height_growth), root |-> scaled(max_root_growth),
         flowers |-> scaled(max_flower_growth)]

accumulate_flowers_rounded_up(flowers, increment) ==
    (flowers * ONE + increment + ONE - 1) \div ONE

accumulate_flowers_truncated(flowers, increment) ==
    (flowers * ONE + increment) \div ONE

\* round(self.flowers + flower_growth * variation): the new count before the
\* maximum is applied (increment in 1/ONE)
accumulate_flowers(flowers, increment) ==
    round_int(flowers * ONE + increment)

\* the three amounts of a day, each multiplied by the day's variation
growth_added(g, variation) ==
    [height |-> (g.height * variation) \div ONE,
     root_length |-> (g.root * variation) \div ONE,
     flowers |-> (g.flowers * variation) \div ONE]

\* the end of FlaxPlant.update_growth: the amounts are added, the maxima
\* applied and the appearance updated
grown(plant, added, variation, new_appearance, s) ==
    [plant EXCEPT
       !.height = limit(@ + added.height, max_height * ONE),
       !.root_length = limit(@ + added.root_length, max_root_length * ONE),
       !.flowers = limit(accumulate_flowers(@, added.flowers), max_flowers),
       !.appearance = new_appearance,
       !.updates = @ + 1,
       !.increment = added,
       !.variation = [height |-> variation, root_length |-> variation,
                      flowers |-> variation],
       !.drawn_from = s,
       !.flower_sum = @ + added.flowers]

\* FlaxPlant.update_growth(day, environment) with the generator in state s.
\* The evaluator runs (and sets stress_level) before phase_day / phase_length is
\* computed, so a day of an unknown phase raises ZeroDivisionError after it.
update_growth(plant, d, environment, s) ==
    LET ph == get_current_phase(d)
        phase_day == get_phase_day(d, ph)
        phase_length == get_phase_length(ph)
        ev == calculate_growth_factor(plant, environment)
        evaluated == [plant EXCEPT !.stress_level = ev.stress_level,
                                   !.growth_factor = ev.growth_factor]
    IN  IF phase_length = 0 THEN
            [plant |-> evaluated, rng |-> s, exception |-> "ZeroDivisionError"]
        ELSE
            LET g == daily_growth(ph, phase_day, phase_length, ev.growth_factor)
                variation == uniform(9000, 11000, Draw(s, 1))
            IN  [plant |-> grown(evaluated, growth_added(g, variation), variation,
                                 update_appearance(ev.stress_level, ph, Draw(s, 2)), s),
                 rng |-> Draw(s, 2), exception |-> "none"]

\* FlaxPlant.get_status_description
get_status_description(appearance) ==
    IF appearance >= 8 * ONE THEN "Thriving - Vibrant and healthy"
    ELSE IF appearance >= 6 * ONE THEN "Healthy - Growing well"
    ELSE IF appearance >= 4 * ONE THEN "Average - Some minor issues"
    ELSE IF appearance >= 2 * ONE THEN "Struggling - Visible stress signs"
    ELSE "Critical - Severe stress"

\* FlaxPlant.get_current_metrics: height and root length rounded to one decimal
get_current_metrics(plant, plant_id) ==
    [plant_id |-> plant_id,
     height |-> round_div(plant.height, ONE \div 10) * (ONE \div 10),
     root_length |-> round_div(plant.root_length, ONE \div 10) * (ONE \div 10),
     flowers |-> plant.flowers,
     appearance |-> plant.appearance,
     status |-> get_status_description(plant.appearance)]

RECURSIVE update_plants_shared_state(_, _, _, _, _)
update_plants_shared_state(ps, i, d, environment, s) ==
    IF i > Len(ps) THEN [plants |-> ps, rng |-> s, exception |-> "none"]
    ELSE LET u == update_growth(ps[i], d, environment, s)
         IN  IF u.exception # "none"
             THEN [plants |-> [j \in DOMAIN ps |-> u.plant], rng |-> u.rng,
                   exception |-> u.exception]
             ELSE update_plants_shared_state([j \in DOMAIN ps |-> u.plant], i + 1, d,
                                             environment, u.rng)

RECURSIVE update_plants(_, _, _, _, _)
\* the loop of GrowthSimulator.simulate_day over self.plants, from plant i on;
\* an exception leaves the remaining plants untouched
update_plants(ps, i, d, environment, s) ==
    IF i > Len(ps) THEN [plants |-> ps, rng |-> s, exception |-> "none"]
    ELSE LET u == update_growth(ps[i], d, environment, s)
         IN  IF u.exception # "none"
             THEN [plants |-> [ps EXCEPT ![i] = u.plant], rng |-> u.rng,
                   exception |-> u.exception]
             ELSE update_plants([ps EXCEPT ![i] = u.plant], i + 1, d, environment, u.rng)

\* the "plants" list GrowthSimulator.simulate_day returns
plants_metrics(ps) ==
    [i \in DOMAIN ps |-> get_current_metrics(ps[i], i)]

----------------------------------------------------------------------------
(* src/controller.py: EnvironmentController *)

\* EnvironmentController.__init__: current_params
InitialParams ==
    [temperature |-> 0, ventilation |-> 0, irrigation |-> 0, light_hours |-> 0,
     temperature_range |-> <<0, 0, 0>>, ventilation_range |-> <<0, 0, 0>>,
     irrigation_range |-> <<0, 0, 0>>, light_hours_range |-> <<0, 0, 0>>]

\* random.random() < p, p in percent
random_below(x, percent) ==
    100 * x < percent * RNG_MOD

normal_values_wrong_range(params, r, s) ==
    [params EXCEPT
       !.temperature = get_random_parameter(r.ventilation[1], r.ventilation[2], Draw(s, 1)),
       !.ventilation = get_random_parameter(r.ventilation[1], r.ventilation[2], Draw(s, 2)),
       !.irrigation = get_random_parameter(r.irrigation[1], r.irrigation[2], Draw(s, 3)),
       !.light_hours = get_random_parameter(r.light_hours[1], r.light_hours[2], Draw(s, 4))]

\* the four get_random_parameter calls, from the draws after state s
normal_values(params, r, s) ==
    [params EXCEPT
       !.temperature = get_random_parameter(r.temperature[1], r.temperature[2], Draw(s, 1)),
       !.ventilation = get_random_parameter(r.ventilation[1], r.ventilation[2], Draw(s, 2)),
       !.irrigation = get_random_parameter(r.irrigation[1], r.irrigation[2], Draw(s, 3)),
       !.light_hours = get_random_parameter(r.light_hours[1], r.light_hours[2], Draw(s, 4))]

\* the lower end of the random.uniform call of each parameter's deviation
ERROR_MINIMUM ==
    [temperature |-> 100, ventilation |-> 10, irrigation |-> 1000, light_hours |-> 100]

error_magnitude_from_zero(k, x) ==
    uniform(0, ERROR_SEVERITY[k], x)

\* random.uniform(minimum, ERROR_SIMULATION["severity"][k]): how far beyond the
\* boundary the faulty parameter k is put
error_magnitude(k, x) ==
    uniform(ERROR_MINIMUM[k], ERROR_SEVERITY[k], x)

\* EnvironmentController._generate_error_condition(phase); params already carries
\* the ranges of the phase, s is the generator after the error decision
generate_error_condition(params, ph, s) ==
    LET r == ENVIRONMENT_PARAMS(ph)
        error_param ==
            <<"temperature", "ventilation", "irrigation", "light_hours">>[
                (4 * Draw(s, 1)) \div RNG_MOD + 1]
        base == normal_values(params, r, Draw(s, 1))
        low == random_below(Draw(s, 6), 50)
        x == Draw(s, 7)
    IN  [rng |-> x,
         params |->
           CASE error_param = "temperature" ->
                  [base EXCEPT !.temperature =
                     IF low THEN r.temperature[1] - error_magnitude("temperature", x)
                     ELSE r.temperature[2] + error_magnitude("temperature", x)]
             [] error_param = "ventilation" ->
                  [base EXCEPT !.ventilation =
                     IF low THEN Max(10, r.ventilation[1] - error_magnitude("ventilation", x))
                     ELSE r.ventilation[2] + error_magnitude("ventilation", x)]
             [] error_param = "irrigation" ->
                  [base EXCEPT !.irrigation =
                     IF low THEN Max(1000, r.irrigation[1] - error_magnitude("irrigation", x))
                     ELSE r.irrigation[2] + error_magnitude("irrigation", x)]
             [] error_param = "light_hours" ->
                  [base EXCEPT !.light_hours =
                     IF low THEN Max(600, r.light_hours[1] - error_magnitude("light_hours", x))
                     ELSE Min(2400, r.light_hours[2] + error_magnitude("light_hours", x))],
         error_description |->
           (CASE error_param = "temperature" -> "Temperature"
              [] error_param = "ventilation" -> "Ventilation"
              [] error_param = "irrigation" -> "Irrigation"
              [] error_param = "light_hours" -> "Light hours")
           \o (IF low THEN " too low" ELSE " too high")]

set_parameters_for_day_no_reset(params, d, simulate_errors, s) ==
    LET ph == get_current_phase(d)
    IN  IF ph \notin PhaseNames THEN
            [exception |-> "KeyError", params |-> params, rng |-> s, changed |-> FALSE,
             error_active |-> FALSE, error_description |-> ""]
        ELSE
            LET r == ENVIRONMENT_PARAMS(ph)
                ranged == [params EXCEPT !.temperature_range = r.temperature,
                                         !.ventilation_range = r.ventilation,
                                         !.irrigation_range = r.irrigation,
                                         !.light_hours_range = r.light_hours]
            IN  IF simulate_errors /\ random_below(Draw(s, 1), ERROR_PROBABILITY) THEN
                    LET e == generate_error_condition(ranged, ph, Draw(s, 1))
                    IN  [exception |-> "none", params |-> e.params, rng |-> e.rng,
                         changed |-> TRUE, error_active |-> TRUE,
                         error_description |-> e.error_description]
                ELSE
                    LET s1 == IF simulate_errors THEN Draw(s, 1) ELSE s
                    IN  [exception |-> "none", params |-> normal_values(ranged, r, s1),
                         rng |-> Draw(s1, 4), changed |-> FALSE, error_active |-> FALSE,
                         error_description |-> ""]

\* EnvironmentController.set_parameters_for_day(day) with the controller's
\* current_params and the generator in state s. ENVIRONMENT_PARAMS[phase] raises
\* KeyError for the phase "unknown", before anything is changed.
set_parameters_for_day(params, d, simulate_errors, s) ==
    LET ph == get_current_phase(d)
    IN  IF ph \notin PhaseNames THEN
            [exception |-> "KeyError", params |-> params, rng |-> s, changed |-> FALSE,
             error_active |-> FALSE, error_description |-> ""]
        ELSE
            LET r == ENVIRONMENT_PARAMS(ph)
                ranged == [params EXCEPT !.temperature_range = r.temperature,
                                         !.ventilation_range = r.ventilation,
                                         !.irrigation_range = r.irrigation,
                                         !.light_hours_range = r.light_hours]
            IN  IF simulate_errors /\ random_below(Draw(s, 1), ERROR_PROBABILITY) THEN
                    LET e == generate_error_condition(ranged, ph, Draw(s, 1))
                    IN  [exception |-> "none", params |-> e.params, rng |-> e.rng,
                         changed |-> TRUE, error_active |-> TRUE,
                         error_description |-> e.error_description]
                ELSE
                    LET s1 == IF simulate_errors THEN Draw(s, 1) ELSE s
                    IN  [exception |-> "none", params |-> normal_values(ranged, r, s1),
                         rng |-> Draw(s1, 4), changed |-> TRUE, error_active |-> FALSE,
                         error_description |-> ""]

\* EnvironmentController.manual_override(**kwargs): the keys the controller
\* knows are overwritten, the others ignored; the error status is left alone
manual_override(params, kwargs) ==
    [k \in DOMAIN params |-> IF k \in DOMAIN kwargs THEN kwargs[k] ELSE params[k]]

\* the override the client of the "manual" source applies every day: 30 degrees,
\* and a key the controller does not know
ManualKwargs ==
    [k \in {"temperature", "humidity"} |-> IF k = "temperature" THEN 3000 ELSE 6000]

copy_returns_self(params) ==
    [shared |-> TRUE, items |-> params]

\* self.current_params.copy(), what set_parameters_for_day and manual_override
\* return: a dict of its own (not shared with the controller) holding the items
\* current_params has at that moment
copy(params) ==
    [shared |-> FALSE, items |-> params]

\* the items read through a dict reference while the controller's current_params
\* holds current: a shared dict shows the controller's items, a copy its own
items_of(dict, current) ==
    IF dict.shared THEN current ELSE dict.items

----------------------------------------------------------------------------
(* src/data_storage.py: DataLogger, and the loop of src/main.py *)

log_daily_data_day_from_clock(d, ph, environment, plants_data, error_status, date_time) ==
    [day |-> date_time, date_time |-> date_time, phase |-> ph,
     environment |-> environment, plants_data |-> plants_data,
     error_status |-> error_status]

\* DataLogger.log_daily_data: the entry appended to daily_data; the environment
\* dict is stored as handed over, not copied
log_daily_data(d, ph, environment, plants_data, error_status, date_time) ==
    [day |-> d, date_time |-> date_time, phase |-> ph,
     environment |-> environment, plants_data |-> plants_data,
     error_status |-> error_status]

\* EnvironmentController.get_error_status
get_error_status(active, description) ==
    [error_active |-> active, error_description |-> description]

\* DataLogger._calculate_summary, "Calculate growth rates" for plant p: last
\* logged day minus first logged day over the number of logged days, rounded
\* to two decimals; in hundredths
growth_rate(data, p) ==
    LET total_days == Len(data)
        first_day == data[1].plants_data[p]
        last_day == data[Len(data)].plants_data[p]
        height_growth == last_day.height - first_day.height
        root_growth == last_day.root_length - first_day.root_length
        flower_growth == last_day.flowers - first_day.flowers
    IN  [height |-> round_div(height_growth, total_days * (ONE \div 100)),
         root |-> round_div(root_growth, total_days * (ONE \div 100)),
         flowers |-> round_div(flower_growth * 100, total_days)]

loop_exhausted_early(d) ==
    d >= TOTAL_DAYS - 1

\* for day in range(1, TOTAL_DAYS + 1): whether d was the last iteration
loop_exhausted(d) ==
    d >= TOTAL_DAYS

----------------------------------------------------------------------------
(* Readings supplied by a client of GrowthSimulator instead of the controller *)

\* "controller": set_parameters_for_day; "manual": set_parameters_for_day
\* followed by manual_override; the others: readings built by the client
Sources == {"controller", "manual", "optimal", "cold", "extreme_low", "extreme_high"}

ControllerSources == {"controller", "manual"}

\* the reading a client builds for a phase: the phase's ranges attached, the
\* values at optimum, with a cold fault of 5 degrees, or far outside the ranges
external_reading(src, ph) ==
    LET r == ENVIRONMENT_PARAMS(ph)
        at_optimum ==
            [temperature |-> r.temperature[3], ventilation |-> r.ventilation[3],
             irrigation |-> r.irrigation[3], light_hours |-> r.light_hours[3],
             temperature_range |-> r.temperature, ventilation_range |-> r.ventilation,
             irrigation_range |-> r.irrigation, light_hours_range |-> r.light_hours]
    IN  CASE src = "optimal" -> at_optimum
          [] src = "cold" -> [at_optimum EXCEPT !.temperature = r.temperature[1] - 500]
          [] src = "extreme_low" ->
               [at_optimum EXCEPT !.temperature = -5000, !.ventilation = 0,
                                  !.irrigation = 0, !.light_hours = 0]
          [] src = "extreme_high" ->
               [at_optimum EXCEPT !.temperature = 10000, !.ventilation = 5000,
                                  !.irrigation = 100000, !.light_hours = 2400]

----------------------------------------------------------------------------
(* src/flax_greenhouse_mvc/model/config.py and model/plant_model.py *)

PHASES(ph) ==
    CASE ph = "germination" -> <<1, 10>> [] ph = "growth" -> <<11, 60>>
      [] ph = "flowering" -> <<61, 70>> [] ph = "ripening" -> <<71, 80>>

\* ENVIRONMENT[phase]: (min, max) of each parameter, in hundredths
ENVIRONMENT(ph) ==
    CASE ph = "germination" ->
           [temperature |-> <<1500, 2000>>, ventilation |-> <<100, 200>>,
            irrigation |-> <<5000, 10000>>, light_hours |-> <<1200, 1400>>]
      [] ph = "growth" ->
           [temperature |-> <<1800, 2200>>, ventilation |-> <<200, 300>>,
            irrigation |-> <<10000, 20000>>, light_hours |-> <<1400, 1600>>]
      [] ph = "flowering" ->
           [temperature |-> <<2000, 2400>>, ventilation |-> <<300, 400>>,
            irrigation |-> <<15000, 25000>>, light_hours |-> <<1400, 1400>>]
      [] ph = "ripening" ->
           [temperature |-> <<1800, 2200>>, ventilation |-> <<200, 300>>,
            irrigation |-> <<10000, 20000>>, light_hours |-> <<1200, 1400>>]

MAX_VALUES ==
    [height |-> 120, root_length |-> 120, flowers |-> 50]

GROWTH_RATES_flowers_early(ph) ==
    CASE ph = "germination" -> [height |-> 4000, root |-> 12000, flowers |-> 0]
      [] ph = "growth" -> [height |-> 10000, root |-> 10000, flowers |-> 25000]
      [] ph = "flowering" -> [height |-> 12000, root |-> 6000, flowers |-> 25000]
      [] ph = "ripening" -> [height |-> 2000, root |-> 2000, flowers |-> 2000]

\* average daily growth by phase, in 1/ONE
GROWTH_RATES(ph) ==
    CASE ph = "germination" -> [height |-> 4000, root |-> 12000, flowers |-> 0]
      [] ph = "growth" -> [height |-> 10000, root |-> 10000, flowers |-> 0]
      [] ph = "flowering" -> [height |-> 12000, root |-> 6000, flowers |-> 25000]
      [] ph = "ripening" -> [height |-> 2000, root |-> 2000, flowers |-> 2000]

\* the last day MainController._update_model passes to the model
LAST_MODEL_DAY == 80

\* PlantModel._get_phase_for_day
get_phase_for_day(d) ==
    IF PHASES("germination")[1] <= d /\ d <= PHASES("germination")[2] THEN "germination"
    ELSE IF PHASES("growth")[1] <= d /\ d <= PHASES("growth")[2] THEN "growth"
    ELSE IF PHASES("flowering")[1] <= d /\ d <= PHASES("flowering")[2] THEN "flowering"
    ELSE IF PHASES("ripening")[1] <= d /\ d <= PHASES("ripening")[2] THEN "ripening"
    ELSE "ripening"

\* PlantModel._calculate_growth_factor: only the temperature is scored, against
\* the phase's range with the midpoint as optimum
model_growth_factor(plant, temp, ph) ==
    LET temp_min == ENVIRONMENT(ph).temperature[1]
        temp_max == ENVIRONMENT(ph).temperature[2]
        temp_optimal == (temp_min + temp_max) \div 2
        effect ==
            IF temp < temp_min THEN
                LET temp_penalty == ((temp_min - temp) * ONE) \div temp_min
                IN  [growth |-> -((temp_penalty * 5) \div 10),
                     stress |-> (temp_penalty * 3) \div 10]
            ELSE IF temp > temp_max THEN
                LET temp_penalty == ((temp - temp_max) * ONE) \div temp_max
                IN  [growth |-> -((temp_penalty * 6) \div 10),
                     stress |-> (temp_penalty * 4) \div 10]
            ELSE
                LET temp_optimality ==
                        IF temp_max = temp_min
                        THEN (IF temp = temp_optimal THEN ONE ELSE (8 * ONE) \div 10)
                        ELSE ONE - (Abs(temp - temp_optimal) * ONE) \div (temp_max - temp_min)
                IN  [growth |-> (temp_optimality * 2) \div 10, stress |-> 0]
    IN  [growth_factor |-> Max(ONE \div 10, Min(ONE + effect.growth, (12 * ONE) \div 10)),
         stress_level |-> Min(initial_stress_level(plant.stress_level) + effect.stress, ONE)]

model_update_appearance_unclamped(stress, ph, x) ==
    LET r == APPEARANCE_RATINGS(ph)
    IN  r[1] * ONE + (r[2] - r[1]) * (ONE - stress) + uniform(-3000, 3000, x)

\* PlantModel._update_appearance (the value is not rounded)
model_update_appearance(stress, ph, x) ==
    LET r == APPEARANCE_RATINGS(ph)
        appearance_mod == ONE - stress
        base_appearance == r[1] * ONE + (r[2] - r[1]) * appearance_mod
        variation == uniform(-3000, 3000, x)
    IN  Max(0, Min(10 * ONE, base_appearance + variation))

model_limit_unbounded(value, maximum) ==
    value

\* min(self.height, self.config["MAX_VALUES"][...])
model_limit(value, maximum) ==
    Min(value, maximum)

\* the end of PlantModel._calculate_growth: the amounts are added, the maxima
\* applied and the appearance updated
model_grown(plant, added, variation, ev, new_appearance, s) ==
    [height |-> model_limit(plant.height + added.height, MAX_VALUES.height * ONE),
     root_length |-> model_limit(plant.root_length + added.root_length,
                                 MAX_VALUES.root_length * ONE),
     flowers |-> model_limit(accumulate_flowers(plant.flowers, added.flowers),
                             MAX_VALUES.flowers),
     appearance |-> new_appearance,
     stress_level |-> ev.stress_level,
     growth_factor |-> ev.growth_factor,
     updates |-> plant.updates + 1,
     increment |-> added,
     variation |-> [height |-> variation, root_length |-> variation, flowers |-> variation],
     drawn_from |-> s,
     flower_sum |-> plant.flower_sum + added.flowers]

\* PlantModel._calculate_growth for the phase ph and the temperature temp
calculate_growth(plant, ph, temp, s) ==
    LET ev == model_growth_factor(plant, temp, ph)
        rates == GROWTH_RATES(ph)
        height_growth == (rates.height * ev.growth_factor) \div ONE
        root_growth == (rates.root * ev.growth_factor) \div ONE
        flower_growth == (rates.flowers * ev.growth_factor) \div ONE
        variation == uniform(9000, 11000, Draw(s, 1))
    IN  model_grown(plant,
                    growth_added([height |-> height_growth, root |-> root_growth,
                                  flowers |-> flower_growth], variation),
                    variation, ev, model_update_appearance(ev.stress_level, ph, Draw(s, 2)), s)

\* MainController._update_model: the day from the time elapsed since start
model_day(elapsed_intervals) ==
    Min(elapsed_intervals \div UpdatesPerDay + 1, LAST_MODEL_DAY)

\* PlantModel._generate_recommendations: the midpoint of every range
generate_recommendations(ph) ==
    LET phase_params == ENVIRONMENT(ph)
    IN  [temperature |-> (phase_params.temperature[1] + phase_params.temperature[2]) \div 2,
         irrigation |-> (phase_params.irrigation[1] + phase_params.irrigation[2]) \div 2,
         ventilation |-> (phase_params.ventilation[1] + phase_params.ventilation[2]) \div 2,
         light_hours |-> (phase_params.light_hours[1] + phase_params.light_hours[2]) \div 2]

----------------------------------------------------------------------------
(* src/flax_greenhouse_mvc/controller: HardwareController and the hardware *)
(* side of MainController. A component's value is a percentage in 1/ONE.   *)

\* HardwareController.components, in the order of the dictionary
Components == <<"heating_mat", "water_pump", "ventilation", "led_lights">>

ComponentNames == {Components[i] : i \in DOMAIN Components}

FULL == 100 * ONE

\* HardwareController.__init__ (last_commands[c] is empty until a command for c
\* was executed; the commands carry no timestamp here)
HardwareController ==
    [components |-> [c \in ComponentNames |-> [state |-> FALSE, value |-> 0]],
     last_commands |-> [c \in ComponentNames |-> <<>>],
     command_queue |-> <<>>,
     simulator_running |-> FALSE]

\* HardwareController.set_component_state with a value given
set_component_state(hw, component, state, value) ==
    [hw EXCEPT !.command_queue =
        Append(@, [component |-> component, state |-> state, value |-> value])]

\* HardwareController._execute_command
execute_command(hw, command) ==
    [hw EXCEPT
       !.components[command.component] = [state |-> command.state, value |-> command.value],
       !.last_commands[command.component] = <<command>>]

RECURSIVE execute_commands(_, _)
\* the loop of process_commands over the commands it took, run without interruption
execute_commands(hw, commands) ==
    IF commands = <<>> THEN hw
    ELSE execute_commands(execute_command(hw, Head(commands)), Tail(commands))

\* HardwareController.process_commands run without interruption
process_commands(hw) ==
    execute_commands([hw EXCEPT !.command_queue = <<>>], hw.command_queue)

\* MainController._adjust_hardware_from_model: the set_component_state calls
\* it makes, in order
adjust_commands(recommendations, current_temp, moisture, current_hour) ==
    LET target_temp == recommendations.temperature
        heating ==
            IF current_temp < target_temp - 100
            THEN <<[component |-> "heating_mat", state |-> TRUE, value |-> FULL]>>
            ELSE IF current_temp > target_temp + 100
            THEN <<[component |-> "heating_mat", state |-> FALSE, value |-> 0]>>
            ELSE <<>>
        pump_value == Min(FULL, round_div(recommendations.irrigation * ONE, 1440))
        pump ==
            IF moisture < 6000
            THEN [component |-> "water_pump", state |-> TRUE, value |-> pump_value]
            ELSE [component |-> "water_pump", state |-> FALSE, value |-> 0]
        fan_speed == round_div((recommendations.ventilation - 100) * ONE, 3)
        fan == [component |-> "ventilation", state |-> TRUE, value |-> fan_speed]
        lights ==
            IF 600 <= current_hour * 100 /\ current_hour * 100 < 600 + recommendations.light_hours
            THEN [component |-> "led_lights", state |-> TRUE, value |-> FULL]
            ELSE [component |-> "led_lights", state |-> FALSE, value |-> 0]
    IN  heating \o <<pump, fan, lights>>

RECURSIVE enqueue_all(_, _)
\* a sequence of set_component_state calls
enqueue_all(hw, commands) ==
    IF commands = <<>> THEN hw
    ELSE enqueue_all(set_component_state(hw, Head(commands).component,
                                         Head(commands).state, Head(commands).value),
                     Tail(commands))

\* the hours of the day at which the control loop is observed
Hours == {12, 22}

\* MainController._update_model lines 116-142: the reading handed to the model,
\* its last three parameters derived from the hardware state
model_environment(temperature, components) ==
    [temperature |-> temperature,
     irrigation |-> IF components["water_pump"].state
                    THEN round_div(components["water_pump"].value * 1440, ONE) ELSE 0,
     ventilation |-> IF components["ventilation"].state
                     THEN 100 + round_div(components["ventilation"].value * 3, ONE) ELSE 0,
     light_hours |-> IF components["led_lights"].state THEN 1400 ELSE 0]

----------------------------------------------------------------------------
(* src/main.py: the loop of run_simulation *)

\* the state of one run of the simulator: controller, simulator, logger and the
\* driver's position
Run ==
    [rng |-> rng, pc |-> pc, day |-> day, current_day |-> current_day, phase |-> phase,
     env |-> env, error_active |-> error_active, error_description |-> error_description,
     plants |-> plants, exception |-> exception, now |-> now, daily_data |-> daily_data]

\* lines 31-36: the loop takes the next day and asks the controller for its
\* reading; src tells whether the client overrides the reading afterwards
loop_generate(r, simulate_errors, src) ==
    LET g == set_parameters_for_day(r.env, r.day + 1, simulate_errors, r.rng)
    IN  [r EXCEPT
           !.day = r.day + 1,
           !.env = g.params,
           !.rng = g.rng,
           !.exception = g.exception,
           !.error_active = IF g.changed THEN g.error_active ELSE @,
           !.error_description = IF g.changed THEN g.error_description ELSE @,
           !.pc = IF g.exception # "none" THEN "crashed"
                  ELSE IF src = "manual" THEN "override" ELSE "simulate"]

\* lines 38-60: GrowthSimulator.simulate_day(environment), then the error status
\* is read and the day's data handed to the logger; the environment logged is
\* the dict the controller returned (controller.py lines 62, 130, 154), or the
\* client's own dict. bounded tells whether the loop ends with TOTAL_DAYS
loop_simulate(r, src, bounded) ==
    LET u == update_plants(r.plants, 1, r.current_day + 1, r.env, r.rng)
        environment == IF src \in ControllerSources THEN copy(r.env)
                       ELSE [shared |-> FALSE, items |-> r.env]
        entry == log_daily_data(r.day, get_current_phase(r.day), environment,
                                plants_metrics(u.plants),
                                get_error_status(r.error_active, r.error_description),
                                r.now)
    IN  [r EXCEPT
           !.current_day = r.current_day + 1,
           !.phase = get_current_phase(r.current_day + 1),
           !.plants = u.plants,
           !.rng = u.rng,
           !.exception = u.exception,
           !.daily_data = IF u.exception = "none" THEN Append(@, entry) ELSE @,
           !.now = r.now + 1,
           !.pc = IF u.exception # "none" THEN "crashed"
                  ELSE IF bounded /\ loop_exhausted(r.day) THEN "done"
                  ELSE "generate"]

----------------------------------------------------------------------------
(* Initial states *)

seed_state(k) ==
    Draw(k, 2)

InitSim ==
    /\ program \in {"main", "api"}
    /\ source \in (IF program = "main" THEN {"controller"} ELSE Sources)
    /\ error_simulation \in (IF source = "controller" THEN BOOLEAN
                             ELSE IF source = "manual" THEN {FALSE} ELSE {TRUE})
    /\ pc = "generate"
    /\ phase = "none"
    /\ env = InitialParams
    /\ plants = [i \in 1..NumPlants |-> FlaxPlant]
    /\ simulation_mode = FALSE
    /\ air_temperature = 0
    /\ soil_moisture = 0
    /\ hardware = HardwareController
    /\ running = FALSE

\* PlantModel.__init__, SensorManager.__init__ (every sensor value 0) and
\* MainController.__init__; the first model update may come before or after the
\* sensor thread's first reading
InitMvc ==
    /\ program = "mvc"
    /\ source = "sensors"
    /\ error_simulation = FALSE
    /\ simulation_mode \in BOOLEAN
    /\ pc \in (IF simulation_mode THEN {"sensors", "update"} ELSE {"update"})
    /\ phase = "germination"
    /\ env = [temperature |-> 2000]
    /\ plants = <<FlaxPlant>>
    /\ air_temperature = 0
    /\ soil_moisture = 0
    /\ hardware = HardwareController
    /\ running = TRUE

\* the control loop's thread, the hardware simulator's and the one that calls
\* MainController.stop
Threads == {"control", "simulator", "main"}

\* the threads of the greenhouse controller when they are not followed step by
\* step: commands is the local variable of process_commands, todo the
\* set_component_state calls the thread has still to make
NoThreads ==
    [t \in Threads |-> [pc |-> "absent", commands |-> <<>>, todo |-> <<>>]]

\* what every run starts from
InitCommon ==
    /\ \E k \in 1..NumSeeds : rng = seed_state(k)
    /\ day = 0
    /\ current_day = 0
    /\ error_active = FALSE
    /\ error_description = ""
    /\ exception = "none"
    /\ ticks = 0
    /\ now = 0
    /\ daily_data = <<>>
    /\ threads = NoThreads
    /\ last_enqueued = [c \in ComponentNames |-> <<>>]

Init ==
    /\ configuration = "shipped"
    /\ InitCommon
    /\ (InitSim \/ InitMvc)
    /\ second_run = <<>>

\* the simulator under a configuration file that breaks a configuration rule
InitConfig ==
    /\ configuration \in Configurations \ {"shipped"}
    /\ InitCommon
    /\ InitSim
    /\ second_run = <<>>

\* run_simulation started twice with the same arguments and the same seed, the
\* second time later on the clock
InitTwin ==
    /\ configuration = "shipped"
    /\ InitCommon
    /\ InitSim
    /\ program = "main"
    /\ \E later \in 1..MaxStartDelay : second_run = <<[Run EXCEPT !.now = later]>>

----------------------------------------------------------------------------
(* Actions *)

mvc_vars == <<simulation_mode, air_temperature, soil_moisture, ticks, hardware>>

thread_vars == <<running, threads, last_enqueued>>

setup_vars == <<program, source, error_simulation, configuration>>

\* the variables of the run take the values of r
Becomes(r) ==
    /\ rng' = r.rng
    /\ pc' = r.pc
    /\ day' = r.day
    /\ current_day' = r.current_day
    /\ phase' = r.phase
    /\ env' = r.env
    /\ error_active' = r.error_active
    /\ error_description' = r.error_description
    /\ plants' = r.plants
    /\ exception' = r.exception
    /\ now' = r.now
    /\ daily_data' = r.daily_data

\* run_simulation lines 31-36
SetParametersForDay ==
    /\ program \in {"main", "api"}
    /\ source \in ControllerSources
    /\ pc = "generate"
    /\ day < MaxDay
    /\ Becomes(loop_generate(Run, error_simulation, source))
    /\ UNCHANGED <<setup_vars, thread_vars, mvc_vars, second_run>>

\* the client of the "manual" source overrides the day's reading before it
\* simulates the day
ManualOverride ==
    /\ program = "api"
    /\ source = "manual"
    /\ pc = "override"
    /\ env' = manual_override(env, ManualKwargs)
    /\ pc' = "simulate"
    /\ UNCHANGED <<setup_vars, thread_vars, mvc_vars, second_run, rng, day, current_day, phase,
                   error_active, error_description, plants, exception, now, daily_data>>

\* a client of GrowthSimulator supplies the next day's reading itself; past the
\* last configured phase it has no ranges to attach and passes the last reading
SupplyReading ==
    /\ program = "api"
    /\ source \notin ControllerSources
    /\ pc = "generate"
    /\ day < MaxDay
    /\ day' = day + 1
    /\ env' = (IF get_current_phase(day + 1) \in PhaseNames
               THEN external_reading(source, get_current_phase(day + 1))
               ELSE env)
    /\ pc' = "simulate"
    /\ UNCHANGED <<setup_vars, thread_vars, mvc_vars, second_run, rng, current_day, phase, plants,
                   error_active, error_description, exception, now, daily_data>>

\* GrowthSimulator.simulate_day(environment), then the rest of the loop body
SimulateDay ==
    /\ program \in {"main", "api"}
    /\ pc = "simulate"
    /\ Becomes(loop_simulate(Run, source, program = "main"))
    /\ UNCHANGED <<setup_vars, thread_vars, mvc_vars, second_run>>

\* SensorManager._read_sensors in simulation mode: five readings are drawn,
\* the air temperature third
ReadSensors ==
    /\ program = "mvc"
    /\ simulation_mode
    /\ pc = "sensors"
    /\ soil_moisture' = round1(uniform(6000, 8000, Draw(rng, 2)))
    /\ air_temperature' = round1(uniform(2000, 2400, Draw(rng, 3)))
    /\ rng' = Draw(rng, 5)
    /\ pc' = "update"
    /\ UNCHANGED <<setup_vars, thread_vars, second_run, day, current_day, phase, env,
                   error_active, error_description, plants, exception, simulation_mode,
                   ticks, now, daily_data, hardware>>

\* MainController._update_model with PlantModel.update, the hardware being in
\* the state components
update_model(components) ==
    LET d == model_day(ticks)
        ph == get_phase_for_day(d)
        environment == model_environment(air_temperature, components)
    IN  /\ current_day' = d
        /\ phase' = ph
        /\ env' = environment
        /\ plants' = <<calculate_growth(plants[1], ph, environment.temperature, rng)>>
        /\ rng' = Draw(rng, 2)
        /\ ticks' = ticks + 1

\* an iteration of MainController._control_loop in which the model update is
\* due: process_commands, _update_model, then _adjust_hardware_from_model
UpdateModel ==
    /\ program = "mvc"
    /\ pc = "update"
    /\ ticks < MaxMvcDays * UpdatesPerDay
    /\ update_model(process_commands(hardware).components)
    /\ \E current_hour \in Hours :
          hardware' = enqueue_all(process_commands(hardware),
                          adjust_commands(generate_recommendations(phase'), air_temperature,
                                          soil_moisture, current_hour))
    /\ pc' = (IF simulation_mode THEN "sensors" ELSE "update")
    /\ UNCHANGED <<setup_vars, thread_vars, second_run, day, error_active, error_description,
                   exception, simulation_mode, air_temperature, soil_moisture, now,
                   daily_data>>

Next ==
    \/ SetParametersForDay
    \/ ManualOverride
    \/ SupplyReading
    \/ SimulateDay
    \/ ReadSensors
    \/ UpdateModel

Spec == Init /\ [][Next]_vars

\* the simulator programs alone
NextSim ==
    \/ SetParametersForDay
    \/ ManualOverride
    \/ SupplyReading
    \/ SimulateDay

SpecConfig == InitConfig /\ [][NextSim]_vars

----------------------------------------------------------------------------
(* The greenhouse controller thread by thread (SpecHardware) *)

\* MainController.start has returned: the control thread is about to test
\* self.running, the hardware simulator thread (simulation mode only) is about
\* to test simulator_running, stop has not been called; the sensor thread has
\* read the sensors once or not yet
InitHardware ==
    /\ configuration = "shipped"
    /\ program = "mvc"
    /\ source = "sensors"
    /\ error_simulation = FALSE
    /\ simulation_mode \in BOOLEAN
    /\ \E read \in (IF simulation_mode THEN BOOLEAN ELSE {FALSE}) :
          /\ rng = (IF read THEN Draw(seed_state(1), 5) ELSE seed_state(1))
          /\ soil_moisture =
                (IF read THEN round1(uniform(6000, 8000, Draw(seed_state(1), 2))) ELSE 0)
          /\ air_temperature =
                (IF read THEN round1(uniform(2000, 2400, Draw(seed_state(1), 3))) ELSE 0)
    /\ pc = "threads"
    /\ day = 0
    /\ current_day = 0
    /\ phase = "germination"
    /\ env = [temperature |-> 2000]
    /\ plants = <<FlaxPlant>>
    /\ error_active = FALSE
    /\ error_description = ""
    /\ exception = "none"
    /\ ticks = 0
    /\ now \in Hours
    /\ daily_data = <<>>
    /\ second_run = <<>>
    /\ hardware = [HardwareController EXCEPT !.simulator_running = simulation_mode]
    /\ running = TRUE
    /\ threads = [NoThreads EXCEPT
                    !["control"].pc = "loop",
                    !["simulator"].pc = (IF simulation_mode THEN "loop" ELSE "absent"),
                    !["main"].pc = "idle"]
    /\ last_enqueued = [c \in ComponentNames |-> <<>>]

model_vars == <<current_day, phase, env, plants, rng, ticks>>

fixed_vars == <<setup_vars, pc, day, error_active, error_description, exception,
                simulation_mode, air_temperature, soil_moisture, daily_data, second_run>>

\* where a thread goes on once its process_commands has returned
after_process(t) ==
    CASE t = "control" -> "update" [] t = "simulator" -> "loop" [] t = "main" -> "stop_simulator"

\* where a thread goes on once it has made its set_component_state calls
after_enqueue(t) ==
    CASE t = "control" -> "loop" [] t = "main" -> "process"

\* _control_loop line 84: while self.running
ControlLoopTest ==
    /\ threads["control"].pc = "loop"
    /\ threads' = [threads EXCEPT !["control"].pc = IF running THEN "process" ELSE "exited"]
    /\ UNCHANGED <<fixed_vars, model_vars, now, hardware, running, last_enqueued>>

\* _simulate_hardware line 106: while self.simulator_running
SimulatorLoopTest ==
    /\ threads["simulator"].pc = "loop"
    /\ threads' = [threads EXCEPT
                     !["simulator"].pc = IF hardware.simulator_running THEN "process"
                                         ELSE "exited"]
    /\ UNCHANGED <<fixed_vars, model_vars, now, hardware, running, last_enqueued>>

\* process_commands lines 69-71: a thread takes the whole queue under the lock;
\* with nothing taken its loop over the commands is over at once
TakeCommands ==
    \E t \in Threads :
        /\ threads[t].pc = "process"
        /\ threads' = [threads EXCEPT
                         ![t].commands = hardware.command_queue,
                         ![t].pc = IF hardware.command_queue = <<>> THEN after_process(t)
                                   ELSE "execute"]
        /\ hardware' = [hardware EXCEPT !.command_queue = <<>>]
        /\ UNCHANGED <<fixed_vars, model_vars, now, running, last_enqueued>>

\* process_commands lines 73-74: a thread executes the next command it took,
\* outside the lock
ExecuteCommand ==
    \E t \in Threads :
        /\ threads[t].pc = "execute"
        /\ hardware' = execute_command(hardware, Head(threads[t].commands))
        /\ threads' = [threads EXCEPT
                         ![t].commands = Tail(@),
                         ![t].pc = IF Len(threads[t].commands) = 1 THEN after_process(t)
                                   ELSE "execute"]
        /\ UNCHANGED <<fixed_vars, model_vars, now, running, last_enqueued>>

\* _control_loop lines 89-95: the model update when it is due (in the first
\* iteration), then _adjust_hardware_from_model decides on its commands; the
\* clock does not go back
ControlAdjust ==
    /\ threads["control"].pc = "update"
    /\ IF ticks = 0 THEN update_model(hardware.components) ELSE UNCHANGED model_vars
    /\ \E current_hour \in Hours :
          /\ current_hour >= now
          /\ now' = current_hour
          /\ threads' = [threads EXCEPT
                           !["control"].pc = "enqueue",
                           !["control"].todo =
                               adjust_commands(generate_recommendations(phase'),
                                               air_temperature, soil_moisture, current_hour)]
    /\ UNCHANGED <<fixed_vars, hardware, running, last_enqueued>>

\* one set_component_state call of _adjust_hardware_from_model or of shutdown
SetComponentState ==
    \E t \in {"control", "main"} :
        /\ threads[t].pc = "enqueue"
        /\ LET command == Head(threads[t].todo)
           IN  /\ hardware' = set_component_state(hardware, command.component,
                                                  command.state, command.value)
               /\ last_enqueued' = [last_enqueued EXCEPT ![command.component] = <<command>>]
        /\ threads' = [threads EXCEPT
                         ![t].todo = Tail(@),
                         ![t].pc = IF Len(threads[t].todo) = 1 THEN after_enqueue(t)
                                   ELSE "enqueue"]
        /\ UNCHANGED <<fixed_vars, model_vars, now, running>>

\* MainController.stop lines 64-67 is called: running is cleared and
\* HardwareController.shutdown begins, a command to turn off for every component
Stop ==
    /\ threads["main"].pc = "idle"
    /\ running
    /\ running' = FALSE
    /\ threads' = [threads EXCEPT
                     !["main"].pc = "enqueue",
                     !["main"].todo = [i \in DOMAIN Components |->
                                         [component |-> Components[i], state |-> FALSE,
                                          value |-> 0]]]
    /\ UNCHANGED <<fixed_vars, model_vars, now, hardware, last_enqueued>>

\* shutdown lines 126-128: simulator_running is cleared; the join that follows
\* gives up after a second
StopSimulator ==
    /\ threads["main"].pc = "stop_simulator"
    /\ hardware' = [hardware EXCEPT !.simulator_running = FALSE]
    /\ threads' = [threads EXCEPT !["main"].pc = "stopping"]
    /\ UNCHANGED <<fixed_vars, model_vars, now, running, last_enqueued>>

\* MainController.stop lines 69-78: the sensors and MQTT are stopped, the join
\* of the control thread gives up after a second, stop returns
StopReturns ==
    /\ threads["main"].pc = "stopping"
    /\ threads' = [threads EXCEPT !["main"].pc = "returned"]
    /\ UNCHANGED <<fixed_vars, model_vars, now, hardware, running, last_enqueued>>

NextHardware ==
    \/ ControlLoopTest
    \/ SimulatorLoopTest
    \/ TakeCommands
    \/ ExecuteCommand
    \/ ControlAdjust
    \/ SetComponentState
    \/ Stop
    \/ StopSimulator
    \/ StopReturns

SpecHardware == InitHardware /\ [][NextHardware]_vars

\* both runs take the same step of the loop
TwinSetParametersForDay ==
    /\ pc = "generate"
    /\ day < MaxDay
    /\ Becomes(loop_generate(Run, error_simulation, source))
    /\ second_run' = <<loop_generate(second_run[1], error_simulation, source)>>
    /\ UNCHANGED <<setup_vars, thread_vars, mvc_vars>>

TwinSimulateDay ==
    /\ pc = "simulate"
    /\ Becomes(loop_simulate(Run, source, TRUE))
    /\ second_run' = <<loop_simulate(second_run[1], source, TRUE)>>
    /\ UNCHANGED <<setup_vars, thread_vars, mvc_vars>>

NextTwin ==
    \/ TwinSetParametersForDay
    \/ TwinSimulateDay

SpecTwin == InitTwin /\ [][NextTwin]_vars

TypeOK ==
    /\ program \in {"main", "api", "mvc"}
    /\ pc \in {"generate", "override", "simulate", "done", "crashed", "sensors", "update",
              "threads"}
    /\ rng \in 0..(RNG_MOD - 1)
    /\ day \in 0..MaxDay
    /\ exception \in {"none", "KeyError", "ZeroDivisionError"}
    /\ error_active \in BOOLEAN
    /\ configuration \in Configurations
    /\ Len(daily_data) <= day

----------------------------------------------------------------------------
(* Properties *)

Simulator == program \in {"main", "api"}

\* the configured range of a phase, for the program that runs
phase_range(ph) ==
    IF program = "mvc" THEN PHASES(ph)
    ELSE CASE ph = "germination" -> GERMINATION_PHASE
           [] ph = "growth" -> GROWTH_PHASE
           [] ph = "flowering" -> FLOWERING_PHASE
           [] ph = "ripening" -> RIPENING_PHASE

\* the phase lookup of the program that runs
phase_lookup(d) ==
    IF program = "mvc" THEN get_phase_for_day(d) ELSE get_current_phase(d)

\* the day count the program's phases are configured for
total_days ==
    IF program = "mvc" THEN LAST_MODEL_DAY ELSE TOTAL_DAYS

phase_rank(ph) ==
    CASE ph = "germination" -> 1 [] ph = "growth" -> 2
      [] ph = "flowering" -> 3 [] ph = "ripening" -> 4
      [] OTHER -> 0

\* C1: whatever the reading, the growth factor the evaluator returns is within
\* [0.1, 1.2] and the stress level it leaves on the plant is within [0, 1]
C1_EvaluatorBounds ==
    \A i \in DOMAIN plants :
        /\ ONE \div 10 <= plants[i].growth_factor
        /\ plants[i].growth_factor <= (12 * ONE) \div 10
        /\ 0 <= plants[i].stress_level
        /\ plants[i].stress_level <= ONE

\* a reading far below every range has been evaluated: both clamps were needed
C1_Witness ==
    /\ program = "api"
    /\ source = "extreme_low"
    /\ current_day >= 1
    /\ raw_growth_factor(env) < 0
    /\ raw_stress_level(env) > ONE
    /\ plants[1].growth_factor = ONE \div 10
    /\ plants[1].stress_level = ONE

\* C2: no daily update lowers a plant's height, root length or flower count
C2_GrowthNeverReverses ==
    [][\A i \in DOMAIN plants :
          /\ plants'[i].height >= plants[i].height
          /\ plants'[i].root_length >= plants[i].root_length
          /\ plants'[i].flowers >= plants[i].flowers]_vars

\* several days have been simulated and every metric has grown
C2_Witness ==
    /\ current_day >= 2
    /\ \A i \in DOMAIN plants :
          plants[i].height > 0 /\ plants[i].root_length > 0 /\ plants[i].flowers > 0

\* C3: height, root length and flowers never exceed the configured maxima
C3_Maxima ==
    \A i \in DOMAIN plants :
        /\ plants[i].height <= (IF program = "mvc" THEN MAX_VALUES.height ELSE max_height) * ONE
        /\ plants[i].root_length <=
             (IF program = "mvc" THEN MAX_VALUES.root_length ELSE max_root_length) * ONE
        /\ plants[i].flowers <= (IF program = "mvc" THEN MAX_VALUES.flowers ELSE max_flowers)

\* a plant has reached all three maxima
C3_Witness ==
    \E i \in DOMAIN plants :
        /\ plants[i].height = MAX_VALUES.height * ONE
        /\ plants[i].root_length = MAX_VALUES.root_length * ONE
        /\ plants[i].flowers = MAX_VALUES.flowers

\* C4: the appearance of every plant is within [0, 10], initially and after
\* every update
C4_AppearanceRange ==
    \A i \in DOMAIN plants :
        0 <= plants[i].appearance /\ plants[i].appearance <= 10 * ONE

\* an unstressed plant in flowering whose appearance was cut back to 10
C4_Witness ==
    /\ phase = "flowering"
    /\ \E i \in DOMAIN plants :
          plants[i].appearance = 10 * ONE /\ plants[i].stress_level = 0

\* C5: for every day processed in 1..total_days the lookup returns one of the
\* four phases, the one and only configured range that holds the day; the ranges
\* follow each other from day 1 to total_days without gap or overlap, and the
\* phase never steps back as the day grows
C5_PhasePartition ==
    (current_day \in 1..total_days) =>
        /\ phase \in PhaseNames
        /\ phase = phase_lookup(current_day)
        /\ {ph \in PhaseNames :
              phase_range(ph)[1] <= current_day /\ current_day <= phase_range(ph)[2]}
             = {phase}
        /\ \A d \in 1..current_day : phase_rank(phase_lookup(d)) <= phase_rank(phase)
        /\ phase_range("germination")[1] = 1
        /\ phase_range("growth")[1] = phase_range("germination")[2] + 1
        /\ phase_range("flowering")[1] = phase_range("growth")[2] + 1
        /\ phase_range("ripening")[1] = phase_range("flowering")[2] + 1
        /\ phase_range("ripening")[2] = total_days

\* the run has gone through every phase up to the last configured day
C5_Witness ==
    /\ program = "main"
    /\ current_day = TOTAL_DAYS
    /\ phase = "ripening"
    /\ pc = "done"

\* C6: a day outside every configured range is given the last phase, ripening
C6_FallbackToRipening ==
    (current_day >= 1 /\ \A ph \in PhaseNames :
        ~(phase_range(ph)[1] <= current_day /\ current_day <= phase_range(ph)[2]))
    => phase = "ripening"

\* C7: no call of the generator or of simulate_day raises, and the plants stay
\* within their bounds after every call, also past the last configured phase
C7_NoFailure ==
    Simulator =>
        /\ exception = "none"
        /\ \A i \in DOMAIN plants :
              /\ plants[i].height \in 0..(max_height * ONE)
              /\ plants[i].root_length \in 0..(max_root_length * ONE)
              /\ plants[i].flowers \in 0..max_flowers
              /\ plants[i].appearance \in 0..(10 * ONE)

\* C8: in a run from day 1, flowers stay 0 through germination and growth, and
\* are positive only once an update in flowering or ripening has happened
C8_NoFlowersBeforeFlowering ==
    \A i \in DOMAIN plants :
        /\ phase \in {"germination", "growth"} => plants[i].flowers = 0
        /\ plants[i].flowers > 0 => current_day >= phase_range("flowering")[1]

\* the last day of the growth phase has been simulated: the plants have grown
\* and carry no flowers
C8_Witness ==
    /\ current_day = phase_range("growth")[2]
    /\ phase = "growth"
    /\ \A i \in DOMAIN plants : plants[i].height > 0 /\ plants[i].flowers = 0

\* whether a reading has every parameter exactly at the optimum of its range
at_optimum(environment) ==
    /\ environment.temperature = environment.temperature_range[3]
    /\ environment.ventilation = environment.ventilation_range[3]
    /\ environment.irrigation = environment.irrigation_range[3]
    /\ environment.light_hours = environment.light_hours_range[3]

\* whether the plants were last updated from the reading held in env
Evaluated ==
    /\ Simulator
    /\ current_day >= 1
    /\ current_day = day
    /\ phase \in PhaseNames

\* C9: a reading with all four parameters exactly at optimum gives a growth
\* factor of at least 1.0 and no stress
C9_OptimalReading ==
    (Evaluated /\ at_optimum(env)) =>
        \A i \in DOMAIN plants :
            plants[i].growth_factor >= ONE /\ plants[i].stress_level = 0

\* an all-optimal reading with the degenerate light range of flowering
\* (min = max = optimal = 14 h) has been evaluated
C9_Witness ==
    /\ Evaluated
    /\ at_optimum(env)
    /\ phase = "flowering"
    /\ env.light_hours_range[1] = env.light_hours_range[2]
    /\ env.light_hours = env.light_hours_range[1]
    /\ plants[1].growth_factor >= ONE

\* C10: with the temperature 5 degrees below the phase's minimum and the other
\* three parameters at optimum, the growth factor is below 1.0 and the stress
\* level is positive
C10_ColdFault ==
    (/\ Evaluated
     /\ env.temperature = env.temperature_range[1] - 500
     /\ env.ventilation = env.ventilation_range[3]
     /\ env.irrigation = env.irrigation_range[3]
     /\ env.light_hours = env.light_hours_range[3])
    => \A i \in DOMAIN plants :
           plants[i].growth_factor < ONE /\ plants[i].stress_level > 0

\* the day's snapshot held by a logged entry: everything but the time of
\* logging, the environment read through the stored dict while the controller's
\* current_params holds current
snapshot(entry, current) ==
    [day |-> entry.day, phase |-> entry.phase,
     environment |-> items_of(entry.environment, current),
     plants_data |-> entry.plants_data, error_status |-> entry.error_status]

snapshots(data, current) ==
    [n \in 1..Len(data) |-> snapshot(data[n], current)]

steps_left ==
    2 * (TOTAL_DAYS - day) + (IF pc = "simulate" THEN 1 ELSE 0)

\* C12: run_simulation ends, and it ends with exactly TOTAL_DAYS snapshots
\* logged: it never raises, until it is done a step of the loop can be taken, and
\* every step brings the end nearer; the k-th snapshot carries day k, and
\* whenever a snapshot has just been logged the simulator's day counter equals
\* the loop's day
C12_RunLogsEveryDayAndEnds ==
    /\ [](program = "main" =>
            /\ exception = "none"
            /\ pc \in {"generate", "simulate", "done"}
            /\ steps_left >= 0
            /\ (pc = "generate" => day < TOTAL_DAYS /\ day < MaxDay)
            /\ (pc = "done" <=> steps_left = 0)
            /\ (pc = "done" => Len(daily_data) = TOTAL_DAYS)
            /\ Len(daily_data) <= TOTAL_DAYS
            /\ \A k \in 1..Len(daily_data) : daily_data[k].day = k
            /\ (pc \in {"generate", "done"} =>
                    current_day = day /\ Len(daily_data) = day))
    /\ [][program = "main" => steps_left' = steps_left - 1]_vars

\* the run is over: the last snapshot is that of day TOTAL_DAYS
C12_Witness ==
    /\ program = "main"
    /\ pc = "done"
    /\ day = TOTAL_DAYS
    /\ current_day = TOTAL_DAYS
    /\ daily_data[TOTAL_DAYS].day = TOTAL_DAYS
    /\ daily_data[1].day = 1

\* C13: a plant's growth state is advanced once for each day number: every
\* update of the plants comes with the next day number, none with the day
\* number of the update before or with a later one
C13_OneUpdatePerDay ==
    [][plants' # plants => current_day' = current_day + 1]_vars

\* C14: under a configuration with a phase of zero length or a range with
\* min > max no reading is generated, no plant is updated and nothing is logged
C14_InvalidConfigurationRejected ==
    (Simulator /\ configuration # "shipped") =>
        /\ env = InitialParams
        /\ \A i \in DOMAIN plants : plants[i] = FlaxPlant
        /\ daily_data = <<>>

ParameterNames == {"temperature", "ventilation", "irrigation", "light_hours"}

\* set_parameters_for_day has just returned the reading held in env
Returned ==
    /\ Simulator
    /\ source \in ControllerSources
    /\ exception = "none"
    /\ pc = (IF source = "manual" THEN "override" ELSE "simulate")

\* the parameters of the reading in env that are outside the range of the
\* day's phase
out_of_range ==
    {k \in ParameterNames :
        LET r == ENVIRONMENT_PARAMS(get_current_phase(day))[k]
        IN  env[k] < r[1] \/ env[k] > r[2]}

\* C15: when set_parameters_for_day returns with error_active = False, all four
\* values are within the ranges of the day's phase and error_description is empty
C15_NormalMode ==
    (Returned /\ ~error_active) =>
        /\ out_of_range = {}
        /\ error_description = ""
        /\ env.temperature_range = ENVIRONMENT_PARAMS(get_current_phase(day)).temperature

\* a normal day that follows an error day
C15_Witness ==
    /\ Returned
    /\ ~error_active
    /\ error_simulation
    /\ day >= 2
    /\ Len(daily_data) = day - 1
    /\ daily_data[day - 1].error_status.error_active
    /\ daily_data[day - 1].error_status.error_description # ""

\* the word error_description starts with for a parameter
description_name(k) ==
    CASE k = "temperature" -> "Temperature" [] k = "ventilation" -> "Ventilation"
      [] k = "irrigation" -> "Irrigation" [] k = "light_hours" -> "Light hours"

\* C16: when set_parameters_for_day returns with error_active = True, exactly
\* one value is strictly outside the range of the day's phase, the other three
\* are within theirs, and error_description names that parameter, with "too low"
\* below the minimum and "too high" above the maximum
C16_ErrorMode ==
    (Returned /\ error_active) =>
        /\ Cardinality(out_of_range) = 1
        /\ \A k \in out_of_range :
              LET r == ENVIRONMENT_PARAMS(get_current_phase(day))[k]
              IN  error_description =
                      description_name(k) \o (IF env[k] < r[1] THEN " too low" ELSE " too high")

\* an error day with the ventilation below its minimum
C16_Witness ==
    /\ Returned
    /\ error_active
    /\ out_of_range = {"ventilation"}
    /\ error_description = "Ventilation too low"
    /\ env.ventilation < env.ventilation_range[1]

\* C17: an entry of the log, once stored, reads the same whatever comes after:
\* the generation and simulation of later days and manual_override
C17_LoggedSnapshotsStay ==
    [][\A n \in 1..Len(daily_data) :
          /\ n <= Len(daily_data')
          /\ snapshot(daily_data'[n], env') = snapshot(daily_data[n], env)
          /\ daily_data'[n].date_time = daily_data[n].date_time]_vars

\* manual_override has just changed the controller's parameters, which now
\* differ from the reading in the last entry logged
C17_Witness ==
    /\ source = "manual"
    /\ pc = "simulate"
    /\ Len(daily_data) >= 2
    /\ day = Len(daily_data) + 1
    /\ env.temperature = ManualKwargs["temperature"]
    /\ snapshot(daily_data[Len(daily_data)], env).environment # env
    /\ snapshot(daily_data[1], env).environment # env

\* C18: simulate_day updates every plant from the one reading it was given and
\* leaves the reading as it was; the new state of a plant is that of its own
\* update (which draws twice from the generator), whatever the other plants are
C18_PlantsIndependent ==
    [][(Simulator /\ pc = "simulate" /\ exception' = "none") =>
          /\ env' = env
          /\ \A i \in DOMAIN plants :
                /\ plants'[i] =
                     update_growth(plants[i], current_day + 1, env,
                                   Draw(rng, 2 * (i - 1))).plant
                /\ plants'[i].growth_factor =
                      calculate_growth_factor(plants[i], env).growth_factor
                /\ plants'[i].stress_level =
                      calculate_growth_factor(plants[i], env).stress_level]_vars

\* two plants that have grown apart were updated from the same reading
C18_Witness ==
    /\ Simulator
    /\ Len(plants) >= 2
    /\ current_day >= 2
    /\ current_day = day
    /\ exception = "none"
    /\ plants[1].height # plants[2].height
    /\ plants[1].appearance # plants[2].appearance
    /\ plants[1].growth_factor = plants[2].growth_factor
    /\ plants[1].stress_level = plants[2].stress_level

\* the growth rate of plant p recomputed from the plant's own state: the sum of
\* its daily increments, which is its state now less its state at construction,
\* over the number of days logged, rounded as the summary rounds; in hundredths
recomputed_growth_rate(p) ==
    LET logged_days == Len(daily_data)
    IN  [height |-> round_div(plants[p].height - FlaxPlant.height,
                              logged_days * (ONE \div 100)),
         root |-> round_div(plants[p].root_length - FlaxPlant.root_length,
                            logged_days * (ONE \div 100)),
         flowers |-> round_div((plants[p].flowers - FlaxPlant.flowers) * 100, logged_days)]

\* C19: at the end of run_simulation the growth rate the summary gives for each
\* plant equals the one recomputed from the plant's daily increments
C19_GrowthRateRoundTrip ==
    (program = "main" /\ pc = "done") =>
        \A p \in DOMAIN plants : growth_rate(daily_data, p) = recomputed_growth_rate(p)

\* C20: within a phase the sigmoid factor of the day simulated is strictly
\* between 0 and 1, greater than that of the day before in the phase, and 0.5
\* when the day is half the phase's length
C20_Sigmoid ==
    (Simulator /\ current_day >= 1 /\ phase \in PhaseNames) =>
        LET phase_length == get_phase_length(phase)
            phase_day == get_phase_day(current_day, phase)
        IN  /\ phase_day \in 1..phase_length
            /\ 0 < sigmoid_factor(phase_day, phase_length)
            /\ sigmoid_factor(phase_day, phase_length) < ONE
            /\ phase_day > 1 =>
                  sigmoid_factor(phase_day - 1, phase_length)
                      < sigmoid_factor(phase_day, phase_length)
            /\ 2 * phase_day = phase_length =>
                  sigmoid_factor(phase_day, phase_length) = ONE \div 2

\* the middle day of the growth phase has been simulated
C20_Witness ==
    /\ Simulator
    /\ phase = "growth"
    /\ 2 * get_phase_day(current_day, phase) = get_phase_length(phase)
    /\ sigmoid_factor(get_phase_day(current_day, phase), get_phase_length(phase)) = ONE \div 2
    /\ \A i \in DOMAIN plants : plants[i].height > 0

\* the weights of the four parameters in tenths: what a parameter below its
\* range costs the growth factor (W_low) and adds to the stress (S_low), the
\* same above the range (W_high, S_high), and the bonus within it (W_bonus)
reference_weights ==
    [temperature |-> [W_low |-> 5, W_high |-> 6, S_low |-> 3, S_high |-> 4, W_bonus |-> 2],
     irrigation  |-> [W_low |-> 7, W_high |-> 6, S_low |-> 5, S_high |-> 4, W_bonus |-> 1],
     ventilation |-> [W_low |-> 4, W_high |-> 3, S_low |-> 2, S_high |-> 1, W_bonus |-> 1],
     light_hours |-> [W_low |-> 6, W_high |-> 3, S_low |-> 3, S_high |-> 2, W_bonus |-> 2]]

\* one parameter's term of the reference computation
reference_term(value, lo, hi, optimal, W) ==
    IF value < lo
    THEN [growth |-> -(((((lo - value) * ONE) \div lo) * W.W_low) \div 10),
          stress |-> ((((lo - value) * ONE) \div lo) * W.S_low) \div 10]
    ELSE IF value > hi
    THEN [growth |-> -(((((value - hi) * ONE) \div hi) * W.W_high) \div 10),
          stress |-> ((((value - hi) * ONE) \div hi) * W.S_high) \div 10]
    ELSE IF hi = lo
    THEN [growth |-> ((IF value = optimal THEN ONE ELSE (8 * ONE) \div 10) * W.W_bonus) \div 10,
          stress |-> 0]
    ELSE [growth |-> ((ONE - (Abs(value - optimal) * ONE) \div (hi - lo)) * W.W_bonus) \div 10,
          stress |-> 0]

\* the reference computation for a reading: ranges[p] is (min, max, optimal)
reference_evaluation(reading, ranges) ==
    LET term(p) == reference_term(reading[p], ranges[p][1], ranges[p][2], ranges[p][3],
                                  reference_weights[p])
        growth == ONE + term("temperature").growth + term("irrigation").growth
                      + term("ventilation").growth + term("light_hours").growth
        stress == term("temperature").stress + term("irrigation").stress
                  + term("ventilation").stress + term("light_hours").stress
    IN  [growth_factor |-> Max(ONE \div 10, Min(growth, (12 * ONE) \div 10)),
         stress_level |-> Min(stress, ONE)]

\* the ranges the reading held in env was evaluated against
evaluated_ranges ==
    IF program = "mvc"
    THEN [p \in {"temperature", "irrigation", "ventilation", "light_hours"} |->
            <<ENVIRONMENT(phase)[p][1], ENVIRONMENT(phase)[p][2],
              (ENVIRONMENT(phase)[p][1] + ENVIRONMENT(phase)[p][2]) \div 2>>]
    ELSE [temperature |-> env.temperature_range, irrigation |-> env.irrigation_range,
          ventilation |-> env.ventilation_range, light_hours |-> env.light_hours_range]

\* the simulator's evaluator (FlaxPlant._calculate_growth_factor) agrees with
\* the reference computation on every reading it evaluated
FlaxPlant_MatchesReference ==
    Evaluated =>
        \A i \in DOMAIN plants :
            /\ plants[i].growth_factor = reference_evaluation(env, evaluated_ranges).growth_factor
            /\ plants[i].stress_level = reference_evaluation(env, evaluated_ranges).stress_level

\* C21: for every reading, the evaluator's growth factor and stress level equal
\* the reference computation over all four parameters (start at 1.0, subtract
\* penalty * W_low below the range, penalty * W_high above it, add
\* optimality * W_bonus within it, clamp to [0.1, 1.2]; stress is the sum of
\* penalty * S_low or penalty * S_high, at most 1), in the simulator and in the
\* greenhouse controller's PlantModel
C21_EvaluatorMatchesReference ==
    (Evaluated \/ (program = "mvc" /\ ticks > 0)) =>
        \A i \in DOMAIN plants :
            /\ plants[i].growth_factor = reference_evaluation(env, evaluated_ranges).growth_factor
            /\ plants[i].stress_level = reference_evaluation(env, evaluated_ranges).stress_level

\* the configured maximum of the flower count, for the program that runs
flowers_maximum ==
    IF program = "mvc" THEN MAX_VALUES.flowers ELSE max_flowers

\* C22: after every daily update the flower count is a non-negative integer
\* equal to min(round(count before + that day's flower increment), maximum):
\* the running total is rounded again every day
C22_FlowersReRounded ==
    [][\A i \in DOMAIN plants :
          plants'[i].updates = plants[i].updates + 1 =>
              /\ plants'[i].flowers \in Nat
              /\ plants'[i].flowers =
                    Min(round_int(plants[i].flowers * ONE + plants'[i].increment.flowers),
                        flowers_maximum)]_vars

\* an update has rounded a fractional flower increment up: the count grew by
\* more than the increment
C22_Witness ==
    \E i \in DOMAIN plants :
        /\ plants[i].updates >= 2
        /\ plants[i].increment.flowers > ONE \div 2
        /\ plants[i].increment.flowers % ONE > ONE \div 2
        /\ plants[i].flowers < flowers_maximum
        /\ plants[i].flowers * ONE > plants[i].flower_sum

\* whether plant i's last completed update drew its multipliers from three
\* separate draws of the generator
separate_draws(i) ==
    /\ plants[i].variation.height = uniform(9000, 11000, Draw(plants[i].drawn_from, 1))
    /\ plants[i].variation.root_length = uniform(9000, 11000, Draw(plants[i].drawn_from, 2))
    /\ plants[i].variation.flowers = uniform(9000, 11000, Draw(plants[i].drawn_from, 3))

\* C23: on each daily update the variation in [0.9, 1.1] is drawn independently
\* for the height increment, the root length increment and the flower
\* increment: each of the three multipliers comes from a draw of its own
C23_IndependentVariation ==
    \A i \in DOMAIN plants :
        plants[i].updates >= 1 =>
            /\ separate_draws(i)
            /\ \A k \in {"height", "root_length", "flowers"} :
                  plants[i].variation[k] >= 9000 /\ plants[i].variation[k] <= 11000

\* the three multipliers of an update are always one and the same number
OneVariationPerUpdate ==
    \A i \in DOMAIN plants :
        /\ plants[i].variation.height = plants[i].variation.root_length
        /\ plants[i].variation.root_length = plants[i].variation.flowers

\* how far the value of parameter k in env lies beyond the boundary of the
\* day's range it violates
beyond_boundary(k) ==
    LET r == ENVIRONMENT_PARAMS(get_current_phase(day))[k]
    IN  IF env[k] < r[1] THEN r[1] - env[k] ELSE env[k] - r[2]

\* C24 as stated: in error mode the faulty parameter lies beyond the violated
\* boundary by at least 1 unit and at most the parameter's severity ceiling
\* (temperature 3, ventilation 0.5, irrigation 30, light_hours 2)
C24_FaultMagnitude ==
    (Returned /\ error_active) =>
        \A k \in out_of_range :
            beyond_boundary(k) >= 100 /\ beyond_boundary(k) <= ERROR_SEVERITY[k]

\* C24 amended: the faulty parameter lies beyond the violated boundary by at
\* least the parameter's own minimum (temperature 1, ventilation 0.1,
\* irrigation 10, light_hours 1) and at most its severity ceiling; no hard
\* floor or ceiling is reached
C24_FaultMagnitudePerParameter ==
    (Returned /\ error_active) =>
        /\ \A k \in out_of_range :
              beyond_boundary(k) >= ERROR_MINIMUM[k] /\ beyond_boundary(k) <= ERROR_SEVERITY[k]
        /\ env.ventilation > 10
        /\ env.irrigation > 1000
        /\ env.light_hours > 600 /\ env.light_hours < 2400

\* an error day with the ventilation less than one exchange per hour above its
\* maximum
C24_Witness ==
    /\ Returned
    /\ error_active
    /\ out_of_range = {"ventilation"}
    /\ env.ventilation > env.ventilation_range[2]
    /\ beyond_boundary("ventilation") < 100
    /\ beyond_boundary("ventilation") >= ERROR_MINIMUM["ventilation"]

\* C25: every reading returned by set_parameters_for_day, in normal mode or in
\* error mode and in any phase, has ventilation >= 0.1 and light_hours within
\* [6, 24]
C25_HardFloors ==
    Returned =>
        /\ env.ventilation >= 10
        /\ env.light_hours >= 600
        /\ env.light_hours <= 2400

\* an error day whose light hours were put below the minimum of the phase
C25_Witness ==
    /\ Returned
    /\ error_active
    /\ out_of_range = {"light_hours"}
    /\ env.light_hours < env.light_hours_range[1]
    /\ env.light_hours >= 600

\* the stress level a plant that was never stressed gets from the reading
stress_of_reading(reading, ph) ==
    IF program = "mvc" THEN model_growth_factor(FlaxPlant, reading.temperature, ph).stress_level
    ELSE calculate_growth_factor(FlaxPlant, reading).stress_level

\* whether all four parameters of the reading lie within the ranges it was
\* evaluated against
all_within_range(reading, ranges) ==
    \A k \in ParameterNames : reading[k] >= ranges[k][1] /\ reading[k] <= ranges[k][2]

\* C26: a plant's stress level after a daily update depends only on that day's
\* reading, nothing is carried over from the day before: it is what a plant
\* without any stress gets from the reading, and it is 0 when all four
\* parameters are within range
C26_StressFromReadingOnly ==
    [][\A i \in DOMAIN plants :
          plants'[i].updates = plants[i].updates + 1 =>
              /\ plants'[i].stress_level =
                    stress_of_reading(IF program = "mvc" THEN env' ELSE env, phase')
              /\ (Simulator /\ all_within_range(env, evaluated_ranges))
                    => plants'[i].stress_level = 0
              /\ (program = "mvc" /\ all_within_range(env', evaluated_ranges'))
                    => plants'[i].stress_level = 0]_vars

\* a day with all four parameters within range has been simulated right after
\* an error day, and has left every plant without stress
C26_Witness ==
    /\ Evaluated
    /\ error_simulation
    /\ exception = "none"
    /\ day >= 2
    /\ Len(daily_data) = day
    /\ daily_data[day - 1].error_status.error_active
    /\ ~daily_data[day].error_status.error_active
    /\ all_within_range(env, evaluated_ranges)
    /\ \A i \in DOMAIN plants : plants[i].stress_level = 0 /\ plants[i].updates = day

\* C27: no fractional flower growth is carried from one day to the next: an
\* update whose flower increment (after variation) is below 0.5 leaves the
\* flower count unchanged
C27_NoFractionCarried ==
    [][\A i \in DOMAIN plants :
          (/\ plants'[i].updates = plants[i].updates + 1
           /\ plants'[i].increment.flowers < ONE \div 2)
          => plants'[i].flowers = plants[i].flowers]_vars

\* run_simulation has ended with a plant whose flower count is below its
\* maximum and smaller than the rounded sum of its daily flower increments, the
\* last of them a positive increment below 0.5
C27_Witness ==
    /\ program = "main"
    /\ pc = "done"
    /\ \E i \in DOMAIN plants :
          /\ plants[i].flowers < max_flowers
          /\ plants[i].flowers < round_int(plants[i].flower_sum)
          /\ plants[i].increment.flowers > 0
          /\ plants[i].increment.flowers < ONE \div 2

\* C28: after every daily update in phase p the appearance lies within
\* [min_p - 0.3, max_p + 0.3] and within [0, 10], (min_p, max_p) being the
\* appearance range configured for p; when the day's stress level is 0 it is at
\* least max_p - 0.3
C28_AppearanceOfPhase ==
    [][\A i \in DOMAIN plants :
          plants'[i].updates = plants[i].updates + 1 =>
              LET r == APPEARANCE_RATINGS(phase')
              IN  /\ plants'[i].appearance >= Max(0, r[1] * ONE - 3000)
                  /\ plants'[i].appearance <= Min(10 * ONE, r[2] * ONE + 3000)
                  /\ plants'[i].stress_level = 0
                        => plants'[i].appearance >= r[2] * ONE - 3000]_vars

\* after a day of the growth phase a plant without stress looks 0.2 worse
\* than the phase's maximum
C28_Witness ==
    /\ Evaluated
    /\ phase = "growth"
    /\ \E i \in DOMAIN plants :
          /\ plants[i].updates = current_day
          /\ plants[i].stress_level = 0
          /\ plants[i].appearance = APPEARANCE_RATINGS(phase)[2] * ONE - 2000

\* the queue has drained and no thread holds commands it still has to execute
quiescent ==
    /\ hardware.command_queue = <<>>
    /\ \A t \in Threads : threads[t].commands = <<>>

\* whether component c is in the state its last enqueued command asked for
as_last_enqueued(c) ==
    last_enqueued[c] # <<>> =>
        /\ hardware.components[c].state = last_enqueued[c][1].state
        /\ hardware.components[c].value = last_enqueued[c][1].value

\* C29: with the hardware simulator thread and the control loop both calling
\* process_commands, commands take effect in the order they were enqueued:
\* once the queue has drained and no executor is in the middle of a batch,
\* every component's state and value are those of the command enqueued last
\* for it (stop has not been called)
C29_CommandsInOrder ==
    (quiescent /\ threads["main"].pc = "idle") =>
        \A c \in ComponentNames : as_last_enqueued(c)

\* MainController.stop has returned and the control thread and the hardware
\* simulator thread have left their loops: nothing is executed any more
all_stopped ==
    /\ threads["main"].pc = "returned"
    /\ threads["control"].pc = "exited"
    /\ threads["simulator"].pc \in {"exited", "absent"}

\* C30: after MainController.stop has returned every hardware component has
\* state False and value 0, and no command enqueued by the control-loop
\* iteration that was under way turns a component on afterwards; stated for
\* the states the components are left in for good, when the control thread and
\* the simulator thread have ended as well
C30_AllOffAfterStop ==
    all_stopped =>
        \A c \in ComponentNames :
            hardware.components[c] = [state |-> FALSE, value |-> 0]

====
